---- MODULE Spec2Model ----
(***************************************************************************)
(* Model of dashboard.py: one Streamlit session of the Malnutrition        *)
(* Dashboard.  The script is executed top to bottom on every user          *)
(* interaction; each section of the script is one action.                  *)
(***************************************************************************)
EXTENDS Integers, Sequences, FiniteSets, TLC

(***************************************************************************)
(* Strings.  A name is a sequence of one-character strings; Alphabet lists *)
(* the characters in code-point order, which is the order Python compares  *)
(* str values by.                                                          *)
(***************************************************************************)
Alphabet ==
    << "A", "B", "C", "D", "E", "F", "G", "H", "I", "J", "K", "L", "M",
       "N", "O", "P", "Q", "R", "S", "T", "U", "V", "W", "X", "Y", "Z",
       "a", "b", "c", "d", "e", "f", "g", "h", "i", "j", "k", "l", "m",
       "n", "o", "p", "q", "r", "s", "t", "u", "v", "w", "x", "y", "z" >>

Ord(c) == CHOOSE i \in 1..Len(Alphabet) : Alphabet[i] = c

Min(x, y) == IF x <= y THEN x ELSE y

\* Python's str "<": lexicographic by code point, a proper prefix is smaller.
RECURSIVE StrLess(_, _)
StrLess(s, t) ==
    IF t = << >> THEN FALSE
    ELSE IF s = << >> THEN TRUE
    ELSE IF Head(s) = Head(t) THEN StrLess(Tail(s), Tail(t))
    ELSE Ord(Head(s)) < Ord(Head(t))

(***************************************************************************)
(* difflib.SequenceMatcher(a = candidate, b = word), no junk (isjunk is    *)
(* None and autojunk only acts on sequences of 200 or more elements).      *)
(* Ranges are a[alo..ahi-1], b[blo..bhi-1] with 1-based indices.           *)
(***************************************************************************)
\* Length of the common run of a and b that starts at a[i], b[j].
RECURSIVE RunLen(_, _, _, _, _, _)
RunLen(a, i, ahi, b, j, bhi) ==
    IF i < ahi /\ j < bhi /\ a[i] = b[j]
    THEN 1 + RunLen(a, i + 1, ahi, b, j + 1, bhi)
    ELSE 0

\* find_longest_match: the longest block; of those, the one starting
\* earliest in a; of those, the one starting earliest in b.
find_longest_match(a, alo, ahi, b, blo, bhi) ==
    LET Blocks == { <<i, j, RunLen(a, i, ahi, b, j, bhi)>> :
                        i \in alo..(ahi - 1), j \in blo..(bhi - 1) }
        Better(x, y) == \/ x[3] > y[3]
                        \/ x[3] = y[3] /\ x[1] < y[1]
                        \/ x[3] = y[3] /\ x[1] = y[1] /\ x[2] < y[2]
    IN  IF Blocks = {} THEN <<alo, blo, 0>>
        ELSE LET best == CHOOSE x \in Blocks :
                             \A y \in Blocks : y = x \/ Better(x, y)
             IN  IF best[3] = 0 THEN <<alo, blo, 0>> ELSE best

\* get_matching_blocks: total size of the blocks found by taking the longest
\* match and recursing on the pieces to its left and to its right.
RECURSIVE matches(_, _, _, _, _, _)
matches(a, alo, ahi, b, blo, bhi) ==
    LET m == find_longest_match(a, alo, ahi, b, blo, bhi)
        i == m[1]
        j == m[2]
        k == m[3]
    IN  IF k = 0 THEN 0
        ELSE k
             + (IF alo < i /\ blo < j THEN matches(a, alo, i, b, blo, j) ELSE 0)
             + (IF i + k < ahi /\ j + k < bhi
                THEN matches(a, i + k, ahi, b, j + k, bhi) ELSE 0)

\* A ratio 2.0*M/T is kept as the pair <<2*M, T>>; _calculate_ratio returns
\* 1.0 when both sequences are empty.
calculate_ratio(m, length) == IF length = 0 THEN <<1, 1>> ELSE <<2 * m, length>>

ratio(a, b) == calculate_ratio(matches(a, 1, Len(a) + 1, b, 1, Len(b) + 1), Len(a) + Len(b))

\* quick_ratio: the size of the multiset intersection of the elements.
Occurrences(s, c) == Cardinality({ i \in 1..Len(s) : s[i] = c })

RECURSIVE SumOver(_, _)
SumOver(S, f) ==
    IF S = {} THEN 0
    ELSE LET x == CHOOSE x \in S : TRUE IN f[x] + SumOver(S \ {x}, f)

quick_ratio(a, b) ==
    LET chars == { b[j] : j \in 1..Len(b) }
        avail == [c \in chars |-> Min(Occurrences(a, c), Occurrences(b, c))]
    IN  calculate_ratio(SumOver(chars, avail), Len(a) + Len(b))

real_quick_ratio(a, b) == calculate_ratio(Min(Len(a), Len(b)), Len(a) + Len(b))

\* cutoff = 0.6, kept as the pair <<6, 10>>.
CutoffNum == 6
CutoffDen == 10

RatioGeq(r, num, den) == r[1] * den >= num * r[2]
RatioLess(r, s) == r[1] * s[2] < s[1] * r[2]

\* Variant: no cutoff applied.
AtLeastCutoff_none(r) == RatioGeq(r, 0, CutoffDen)

AtLeastCutoff(r) == RatioGeq(r, CutoffNum, CutoffDen)

\* Variant: pairs compared by score alone.
PairLess_score_only(p, q) == RatioLess(p[1], q[1])

\* Python's tuple "<" on (score, x) pairs: score first, then the string.
PairLess(p, q) ==
    \/ RatioLess(p[1], q[1])
    \/ ~RatioLess(q[1], p[1]) /\ StrLess(p[2], q[2])

\* The (score, x) list get_close_matches builds, in iteration order of the
\* possibilities.
RECURSIVE Scored(_, _)
Scored(word, possibilities) ==
    IF possibilities = << >> THEN << >>
    ELSE LET x == Head(possibilities)
             rest == Scored(word, Tail(possibilities))
         IN  IF /\ AtLeastCutoff(real_quick_ratio(x, word))
                /\ AtLeastCutoff(quick_ratio(x, word))
                /\ AtLeastCutoff(ratio(x, word))
             THEN << <<ratio(x, word), x>> >> \o rest
             ELSE rest

\* heapq.nlargest(1, result) is max(result): the first element no later
\* element is greater than.
RECURSIVE MaxFrom(_, _)
MaxFrom(best, rest) ==
    IF rest = << >> THEN best
    ELSE MaxFrom(IF PairLess(best, Head(rest)) THEN Head(rest) ELSE best, Tail(rest))

nlargest1(result) == IF result = << >> THEN << >> ELSE << MaxFrom(Head(result), Tail(result)) >>

\* difflib.get_close_matches(word, possibilities, n=1, cutoff=0.6): a
\* sequence holding the best candidate, or the empty sequence.
get_close_matches(word, possibilities) ==
    LET top == nlargest1(Scored(word, possibilities))
    IN  [i \in 1..Len(top) |-> top[i][2]]

(***************************************************************************)
(* Names used by the bounded inputs.                                       *)
(***************************************************************************)
Odisha  == << "O", "d", "i", "s", "h", "a" >>
Orissa  == << "O", "r", "i", "s", "s", "a" >>
Odisa   == << "O", "d", "i", "s", "a" >>
Daman   == << "D", "a", "m", "a", "n" >>
Damam   == << "D", "a", "m", "a", "m" >>
Damao   == << "D", "a", "m", "a", "o" >>
Goa     == << "G", "o", "a" >>
Puri    == << "P", "u", "r", "i" >>
Khorda  == << "K", "h", "o", "r", "d", "a" >>
Khordha == << "K", "h", "o", "r", "d", "h", "a" >>

\* Bounds of the model.
MaxRows   == 2
MaxGeo    == 2
MaxReruns == 1

\* Sequences over S of length lo..hi.
SeqsUpTo(S, lo, hi) == UNION { [1..n -> S] : n \in lo..hi }

\* The iteration orders a Python set with the elements S can have.
Orders(S) == { s \in [1..Cardinality(S) -> S] :
                   \A i, j \in 1..Cardinality(S) : i # j => s[i] # s[j] }

Range(s) == { s[i] : i \in DOMAIN s }

(***************************************************************************)
(* Program constants.                                                      *)
(***************************************************************************)
mal_types == { "Stunted", "Wasted", "Underweight" }
growth_options == mal_types \cup { "Normal" }
levels == { "State", "District" }
manual_fix == (Odisha :> Orissa)
threshold == 20
MaternalColumns == { "Mothers_weight_kg", "Mothers_height_cm" }

\* What the district boundary document serves under properties.NAME_2.
RemoteDistricts == { Puri, Khordha }

VARIABLES
    csv_file,          \* rows of Child_data.csv: [State, District, Growth_status]
    csv_columns,       \* optional columns Child_data.csv has
    remote_states,     \* NAME_1 values the state boundary document serves
    cache_filled,      \* st.cache_data holds load_data()'s result
    csv_reads,         \* reads of Child_data.csv from disk in this session
    state_fetches,     \* requests.get calls for the state boundary document
    district_fetches,  \* requests.get calls for the district boundary document
    runs,              \* reruns of the script so far
    level,             \* "Aggregate by:" selectbox
    mal_type,          \* "Select growth status:" selectbox
    pc,                \* the section of the script that runs next
    df,                \* the DataFrame's rows
    columns,           \* the DataFrame's optional and derived columns
    geojson_states,    \* the set geojson_states, in its iteration order
    state_fix_map,
    agg,
    subset

vars == << csv_file, csv_columns, remote_states, cache_filled, csv_reads,
           state_fetches, district_fetches, runs, level, mal_type, pc, df,
           columns, geojson_states, state_fix_map, agg, subset >>

inputs == << csv_file, csv_columns, remote_states >>
session == << cache_filled, csv_reads, state_fetches, district_fetches, runs >>
widgets == << level, mal_type >>

(***************************************************************************)
(* Geography reconciliation (script lines 46-58).                          *)
(***************************************************************************)
csv_states(d) == { d[i].State : i \in DOMAIN d }

\* Variant: every dataset name taken as mismatched.
mismatches_all(d, geo) == csv_states(d)

mismatches(d, geo) == csv_states(d) \ Range(geo)

\* Variant: the fuzzy match tried before the manual table.
fix_for_fuzzy_first(state, geo) ==
    IF get_close_matches(state, geo) # << >>
    THEN get_close_matches(state, geo)
    ELSE IF state \in DOMAIN manual_fix THEN << manual_fix[state] >> ELSE << >>

\* The body of the loop over mismatches: the target for one mismatched
\* state as a one-element sequence, or the empty sequence.
fix_for(state, geo) ==
    IF state \in DOMAIN manual_fix
    THEN << manual_fix[state] >>
    ELSE get_close_matches(state, geo)

build_fix_map(d, geo) ==
    LET fixed == { s \in mismatches(d, geo) : fix_for(s, geo) # << >> }
    IN  [s \in fixed |-> fix_for(s, geo)[1]]

\* Series.replace with a dict: every value that is a key is replaced by the
\* key's value, all keys looked up against the original values.
replace(d, fix) ==
    [i \in DOMAIN d |->
        IF d[i].State \in DOMAIN fix
        THEN [d[i] EXCEPT !.State = fix[d[i].State]]
        ELSE d[i]]

reconciled(d, geo) == replace(d, build_fix_map(d, geo))

\* df[df["Growth_status"].isin(mal_types + ["Normal"])]
filtered(d) == SelectSeq(d, LAMBDA r : r.Growth_status \in growth_options)

(***************************************************************************)
(* Aggregation (script lines 76-82, 96-98).                                *)
(***************************************************************************)
RowsOf(d, lvl, k) == { i \in DOMAIN d : d[i][lvl] = k }

\* Variant: only the malnutrition categories counted.
group_sizes_mal_only(d, lvl) ==
    { [key |-> d[i][lvl], Growth_status |-> d[i].Growth_status,
       count |-> Cardinality({ j \in RowsOf(d, lvl, d[i][lvl]) :
                                   d[j].Growth_status = d[i].Growth_status })] :
        i \in { j \in DOMAIN d : d[j].Growth_status \in mal_types } }

\* df.groupby([level, "Growth_status"]).size(): one row per combination
\* that occurs.
group_sizes(d, lvl) ==
    { [key |-> d[i][lvl], Growth_status |-> d[i].Growth_status,
       count |-> Cardinality({ j \in RowsOf(d, lvl, d[i][lvl]) :
                                   d[j].Growth_status = d[i].Growth_status })] :
        i \in DOMAIN d }

\* df.groupby(level).size()
group_totals(d, lvl) ==
    { [key |-> d[i][lvl], total |-> Cardinality(RowsOf(d, lvl, d[i][lvl]))] :
        i \in DOMAIN d }

\* Variant: the fraction, not scaled to a percentage.
percentage_fraction(count, total) == << count, total >>

\* 100 * count / total, kept as the pair <<100 * count, total>>.
percentage(count, total) == << 100 * count, total >>

\* agg.merge(total, on=level) and the percentage column.
aggregate(d, lvl) ==
    { [key |-> c.key, Growth_status |-> c.Growth_status, count |-> c.count,
       total |-> t.total, percentage |-> percentage(c.count, t.total)] :
        <<c, t>> \in { p \in group_sizes(d, lvl) \X group_totals(d, lvl) :
                           p[1].key = p[2].key } }

\* lambda x: x if x >= threshold else 0
highlight(x) == IF RatioGeq(x, threshold, 1) THEN x ELSE << 0, 1 >>

\* agg[agg["Growth_status"] == mal_type].sort_values("percentage",
\* ascending=False) with the highlight column: every descending order of
\* the selected rows (the order of rows with equal percentage is the sort
\* algorithm's).
subsets(a, status) ==
    LET picked == { [key |-> r.key, Growth_status |-> r.Growth_status,
                     count |-> r.count, total |-> r.total,
                     percentage |-> r.percentage,
                     highlight |-> highlight(r.percentage)] :
                        r \in { x \in a : x.Growth_status = status } }
    IN  { s \in Orders(picked) :
              \A i, j \in DOMAIN s :
                  i < j => ~RatioLess(s[i].percentage, s[j].percentage) }

\* Variant: the column added without the column test.
with_mother_bmi_always(cols) == cols \cup { "Mother_BMI" }

\* Tab 5: df["Mother_BMI"] is assigned only under the column test.
with_mother_bmi(cols) ==
    IF MaternalColumns \subseteq cols THEN cols \cup { "Mother_BMI" } ELSE cols

(***************************************************************************)
(* The script, section by section.                                         *)
(***************************************************************************)
\* Module-level names before the script has assigned them.
Unset ==
    /\ df = << >>
    /\ columns = {}
    /\ geojson_states = << >>
    /\ state_fix_map = << >>
    /\ agg = {}
    /\ subset = << >>

\* A new session: nothing cached, the selectboxes at their first option.
InitSession ==
    /\ cache_filled = FALSE
    /\ csv_reads = 0
    /\ state_fetches = 0
    /\ district_fetches = 0
    /\ runs = 0
    /\ level = "State"
    /\ mal_type = "Stunted"
    /\ pc = "load"
    /\ Unset

\* Lines 19-23: df = load_data(), read from disk on a cache miss only.
Load ==
    /\ pc = "load"
    /\ csv_reads' = IF cache_filled THEN csv_reads ELSE csv_reads + 1
    /\ cache_filled' = TRUE
    /\ df' = csv_file
    /\ columns' = csv_columns
    /\ pc' = "filter"
    /\ UNCHANGED << inputs, state_fetches, district_fetches, runs, widgets,
                    geojson_states, state_fix_map, agg, subset >>

\* Lines 34-35.
Filter ==
    /\ pc = "filter"
    /\ df' = filtered(df)
    /\ pc' = "fetch"
    /\ UNCHANGED << inputs, session, widgets, columns, geojson_states,
                    state_fix_map, agg, subset >>

\* Lines 40-43: requests.get at module level, then the set of NAME_1 values.
FetchStateGeo ==
    /\ pc = "fetch"
    /\ state_fetches' = state_fetches + 1
    /\ \E order \in Orders(remote_states) : geojson_states' = order
    /\ pc' = "reconcile"
    /\ UNCHANGED << inputs, cache_filled, csv_reads, district_fetches, runs,
                    widgets, df, columns, state_fix_map, agg, subset >>

\* Lines 46-58.
Reconcile ==
    /\ pc = "reconcile"
    /\ state_fix_map' = build_fix_map(df, geojson_states)
    /\ df' = reconciled(df, geojson_states)
    /\ pc' = "tab1"
    /\ UNCHANGED << inputs, session, widgets, columns, geojson_states, agg,
                    subset >>

\* Lines 74-130: the aggregate for the selected level, the ranked subset
\* for the selected growth status; the District branch downloads the
\* district boundary document.
Tab1 ==
    /\ pc = "tab1"
    /\ agg' = aggregate(df, level)
    /\ \E s \in subsets(aggregate(df, level), mal_type) : subset' = s
    /\ district_fetches' = IF level = "District" THEN district_fetches + 1
                                                 ELSE district_fetches
    /\ pc' = "tab2"
    /\ UNCHANGED << inputs, cache_filled, csv_reads, state_fetches, runs,
                    widgets, df, columns, geojson_states, state_fix_map >>

\* Lines 135-142: histogram and pie chart of df.
Tab2 ==
    /\ pc = "tab2"
    /\ pc' = "tab3"
    /\ UNCHANGED << inputs, session, widgets, df, columns, geojson_states,
                    state_fix_map, agg, subset >>

\* Lines 147-155: avg_hw is a new frame; line chart and histogram.
Tab3 ==
    /\ pc = "tab3"
    /\ pc' = "tab4"
    /\ UNCHANGED << inputs, session, widgets, df, columns, geojson_states,
                    state_fix_map, agg, subset >>

\* Lines 160-169: immun and sup are new frames; two stacked bar charts.
Tab4 ==
    /\ pc = "tab4"
    /\ pc' = "tab5"
    /\ UNCHANGED << inputs, session, widgets, df, columns, geojson_states,
                    state_fix_map, agg, subset >>

\* Lines 174-185.
Tab5 ==
    /\ pc = "tab5"
    /\ columns' = with_mother_bmi(columns)
    /\ pc' = "download"
    /\ UNCHANGED << inputs, session, widgets, df, geojson_states,
                    state_fix_map, agg, subset >>

\* Lines 190-198: the download button and the footer end the run.
Download ==
    /\ pc = "download"
    /\ pc' = "idle"
    /\ UNCHANGED << inputs, session, widgets, df, columns, geojson_states,
                    state_fix_map, agg, subset >>

\* The user picks a value in one of the two selectboxes: Streamlit runs the
\* script again from the top, in the same session.
Interact ==
    /\ pc = "idle"
    /\ runs < MaxReruns
    /\ \E l \in levels, m \in growth_options :
           /\ << l, m >> # << level, mal_type >>
           /\ l = level \/ m = mal_type
           /\ level' = l
           /\ mal_type' = m
    /\ runs' = runs + 1
    /\ pc' = "load"
    /\ df' = << >>
    /\ columns' = {}
    /\ geojson_states' = << >>
    /\ state_fix_map' = << >>
    /\ agg' = {}
    /\ subset' = << >>
    /\ UNCHANGED << inputs, cache_filled, csv_reads, state_fetches,
                    district_fetches >>

Next ==
    \/ Load
    \/ Filter
    \/ FetchStateGeo
    \/ Reconcile
    \/ Tab1
    \/ Tab2
    \/ Tab3
    \/ Tab4
    \/ Tab5
    \/ Download
    \/ Interact

(***************************************************************************)
(* Inputs.                                                                 *)
(***************************************************************************)
Row(s, d, g) == [State |-> s, District |-> d, Growth_status |-> g]

ColumnSets == { {}, { "Mothers_weight_kg" }, MaternalColumns }

\* Survey rows for the aggregation: two states, two districts, three growth
\* statuses of which one is not a recognised category.
SurveyRows ==
    { Row(s, d, g) : s \in { Odisha, Goa }, d \in { Puri, Khorda },
                     g \in { "Stunted", "Normal", "Overweight" } }

Init ==
    /\ csv_file \in SeqsUpTo(SurveyRows, 0, MaxRows)
    /\ csv_columns \in ColumnSets
    /\ remote_states = { Orissa, Goa }
    /\ InitSession

Spec == Init /\ [][Next]_vars

\* Inputs for the reconciliation: one row per state name, the served names
\* any set of at most MaxGeo canonical names.
CsvNames == { Odisha, Orissa, Daman, Goa }
GeoNames == { Odisha, Orissa, Odisa, Damam, Damao }

RECURSIVE Ascending(_)
Ascending(s) ==
    Len(s) < 2 \/ (StrLess(s[1], s[2]) /\ Ascending(Tail(s)))

InitRecon ==
    /\ \E names \in { s \in SeqsUpTo(CsvNames, 1, MaxRows) : Ascending(s) } :
           csv_file = [i \in DOMAIN names |-> Row(names[i], Puri, "Stunted")]
    /\ csv_columns = MaternalColumns
    /\ remote_states \in { S \in SUBSET GeoNames : Cardinality(S) <= MaxGeo }
    /\ InitSession

SpecRecon == InitRecon /\ [][Next]_vars

(***************************************************************************)
(* Properties.                                                             *)
(***************************************************************************)
\* The reconciliation (lines 46-58) has just run: df and state_fix_map are
\* as it leaves them, and the first panel is about to aggregate.
AfterReconcile == pc = "tab1"
PostTab1 == pc \in { "tab2", "tab3", "tab4", "tab5", "download", "idle" }
Panels == { "tab1", "tab2", "tab3", "tab4", "tab5" }

\* The rows as they were when the reconciliation started.
before == filtered(csv_file)

\* C1: applying the reconciliation step a second time to the reconciled
\* rows changes no State value.
C1_ReconcileIdempotent ==
    AfterReconcile => reconciled(df, geojson_states) = df

\* C2: when the user aggregates by District, every District name of the
\* aggregate is a canonical district name, or is one the reconciliation
\* leaves alone (no manual override, no fuzzy match above the cutoff).
C2_DistrictNamesReconciled ==
    (PostTab1 /\ level = "District") =>
        \A r \in agg :
            \/ r.key \in RemoteDistricts
            \/ /\ r.key \notin DOMAIN manual_fix
               /\ \A o \in Orders(RemoteDistricts) :
                      get_close_matches(r.key, o) = << >>

\* C3 as stated: every row whose State is in the manual-override table
\* carries the override value after the reconciliation.
C3_ManualAlwaysRenamed ==
    AfterReconcile =>
        \A i \in DOMAIN df :
            before[i].State \in DOMAIN manual_fix
                => df[i].State = manual_fix[before[i].State]

\* C3 amended: every row whose State is in the manual-override table and is
\* not a canonical name carries the override value after the
\* reconciliation, whatever fuzzy matches the name has.
C3_ManualRenamesMismatched ==
    AfterReconcile =>
        \A i \in DOMAIN df :
            (before[i].State \in DOMAIN manual_fix /\ before[i].State \notin remote_states)
                => df[i].State = manual_fix[before[i].State]

C3_Witness ==
    /\ AfterReconcile
    /\ Odisha \notin remote_states
    /\ get_close_matches(Odisha, geojson_states) = << Odisa >>
    /\ \E i \in DOMAIN df : before[i].State = Odisha /\ df[i].State = Orissa

\* C4: a row whose State is a canonical name carries the same name after
\* the reconciliation.
C4_CanonicalUnaltered ==
    AfterReconcile =>
        \A i \in DOMAIN df :
            before[i].State \in remote_states => df[i].State = before[i].State

C4_Witness ==
    /\ AfterReconcile
    /\ Odisha \in remote_states
    /\ state_fix_map # << >>
    /\ \E i \in DOMAIN df : before[i].State = Odisha /\ df[i].State = Odisha

\* C5: a mismatched State with no manual override whose similarity to every
\* canonical name is below 0.6 gets no entry in the fix map and is unchanged
\* after the reconciliation, which has run to its end.
C5_BelowCutoffUnchanged ==
    AfterReconcile =>
        \A i \in DOMAIN df :
            LET s == before[i].State IN
                ( /\ s \notin remote_states
                  /\ s \notin DOMAIN manual_fix
                  /\ \A c \in remote_states :
                         ~RatioGeq(ratio(c, s), CutoffNum, CutoffDen) )
                    => (s \notin DOMAIN state_fix_map /\ df[i].State = s)

C5_Witness ==
    /\ AfterReconcile
    /\ Odisa \in remote_states
    /\ \E i \in DOMAIN df : before[i].State = Goa /\ df[i].State = Goa

\* C6: per group of the chosen level, the counts over the growth statuses
\* sum to the group's total, and the total is at least 1.
SumCounts(a, k) ==
    LET rows == { r \in a : r.key = k }
    IN  SumOver(rows, [r \in rows |-> r.count])

C6_CountsSumToTotal ==
    PostTab1 =>
        /\ \A i \in DOMAIN df : \E r \in agg : r.key = df[i][level]
        /\ \A r \in agg :
               /\ r.total >= 1
               /\ r.total = Cardinality(RowsOf(df, level, r.key))
               /\ SumCounts(agg, r.key) = r.total

C6_Witness ==
    /\ PostTab1
    /\ level = "District"
    /\ \E r \in agg : r.total >= 2 /\ r.count < r.total

\* C7: every aggregate row's percentage is 100 * count over its own group's
\* total, and per group the 100 * count terms sum to 100 * total.
SumPercentages(a, k) ==
    LET rows == { r \in a : r.key = k }
    IN  SumOver(rows, [r \in rows |-> r.percentage[1]])

C7_PercentagesSumTo100 ==
    PostTab1 =>
        \A r \in agg :
            LET n == Cardinality(RowsOf(df, level, r.key)) IN
                /\ r.percentage = << 100 * r.count, n >>
                /\ SumPercentages(agg, r.key) = 100 * n

C7_Witness ==
    /\ PostTab1
    /\ \E r \in agg : r.percentage = << 100, 2 >>

\* C8: in one session each boundary document is fetched at most once.
C8_FetchedOncePerSession ==
    state_fetches <= 1 /\ district_fetches <= 1

\* The canonical names that score best against s, among those at or above
\* the cutoff.
BestMatches(s) ==
    LET score == [c \in remote_states |-> ratio(c, s)]
        top == CHOOSE c \in remote_states :
                   \A d \in remote_states : ~RatioLess(score[c], score[d])
    IN  IF remote_states = {} THEN {}
        ELSE { c \in remote_states :
                   /\ RatioGeq(score[c], CutoffNum, CutoffDen)
                   /\ ~RatioLess(score[c], score[top]) }

FuzzyMatched == mismatches(before, geojson_states) \ DOMAIN manual_fix

\* C9 as stated: the match is the first of the best-scoring canonical names
\* in the iteration order of the canonical set.
C9_TieFirstInIterationOrder ==
    AfterReconcile =>
        \A s \in FuzzyMatched :
            LET best == BestMatches(s) IN
                best # {} =>
                    LET first == CHOOSE i \in DOMAIN geojson_states :
                                     /\ geojson_states[i] \in best
                                     /\ \A j \in 1..(i - 1) :
                                            geojson_states[j] \notin best
                    IN  s \in DOMAIN state_fix_map
                            /\ state_fix_map[s] = geojson_states[first]

\* C9 amended: the match depends on the name and the canonical set only,
\* not on the iteration order: it is the greatest, in string order, of the
\* best-scoring canonical names.
C9_TieGreatestString ==
    AfterReconcile =>
        \A s \in FuzzyMatched :
            LET best == BestMatches(s) IN
                IF best = {}
                THEN s \notin DOMAIN state_fix_map
                ELSE /\ s \in DOMAIN state_fix_map
                     /\ state_fix_map[s] \in best
                     /\ \A c \in best : ~StrLess(state_fix_map[s], c)

C9_Witness ==
    /\ AfterReconcile
    /\ geojson_states = << Damam, Damao >>
    /\ Daman \in DOMAIN state_fix_map
    /\ state_fix_map[Daman] = Damao

\* What one step of a panel may do to the Dataset.
PanelStep ==
    pc \in Panels =>
        /\ df' = df
        /\ \/ columns' = columns
           \/ /\ pc = "tab5"
              /\ MaternalColumns \subseteq columns
              /\ columns' = columns \cup { "Mother_BMI" }

\* C10: a panel leaves the rows of the Dataset as they are, and the only
\* column a panel adds is Mother_BMI, in panel 5, when both maternal
\* columns exist.
C10_PanelsLeaveDataset == [][PanelStep]_vars

C10_Witness ==
    /\ pc = "download"
    /\ runs >= 1
    /\ level = "District"
    /\ subset # << >>
    /\ "Mother_BMI" \in columns
    /\ df = reconciled(before, geojson_states)

====
